---- MODULE Spec2Model ----
(***************************************************************************)
(* Model of leptos-scholar: src/lib.rs (the scraping pipeline fetch_page,  *)
(* extract_author_info, extract_citations, fetch_info) and src/main.rs     *)
(* (the Render component that starts one fetch_info per author id).        *)
(*                                                                         *)
(* Text is a sequence of one-character strings, so that parsing can look   *)
(* at every character.  A usize value is its canonical decimal numeral (a  *)
(* sequence of digits without sign and without leading zeros): two usize   *)
(* values are equal exactly when their numerals are, and the numerals of   *)
(* a 64-bit usize do not fit the model checker's integers.                 *)
(***************************************************************************)
EXTENDS Integers, Sequences, FiniteSets, TLC

VARIABLES
    usize_bits,        \* width of usize in the build: 32 (wasm32) or 64
    document,          \* the Html the extraction functions are applied to
    step,              \* position of the single-function specifications
    info_result,       \* what extract_author_info returned
    citations_result,  \* what extract_citations returned
    author_id,         \* the author_id signal of Render
    tasks,             \* the fetch_info futures started so far
    network            \* the requests reqwest::get has issued, in order

vars == <<usize_bits, document, step, info_result, citations_result,
          author_id, tasks, network>>

----------------------------------------------------------------------------
(* Bounds of the model *)

MaxRows == 4
MaxNames == 2
MaxYears == 3
MaxCitations == 3
MaxTasks == 2

----------------------------------------------------------------------------
(* Result<T, E> and Option<T> *)

Ok(v) == [ok |-> TRUE, val |-> v]
Err(e) == [ok |-> FALSE, err |-> e]
None == [some |-> FALSE]
Some(v) == [some |-> TRUE, val |-> v]

Min(a, b) == IF a <= b THEN a ELSE b
Least(S) == CHOOSE x \in S : \A y \in S : x <= y

----------------------------------------------------------------------------
(* ScraperError, lib.rs:25-41 *)

InvalidId == [kind |-> "InvalidId"]
TableNotFound == [kind |-> "TableNotFound"]
NameNotFound == [kind |-> "NameNotFound"]
ParseError(text) == [kind |-> "ParseError", text |-> text]
InsufficientData(count) == [kind |-> "InsufficientData", count |-> count]
YearParseError(text) == [kind |-> "YearParseError", text |-> text]
CitationParseError(text) == [kind |-> "CitationParseError", text |-> text]

----------------------------------------------------------------------------
(* str::parse::<usize>() *)

Digits == <<"0", "1", "2", "3", "4", "5", "6", "7", "8", "9">>
IsDigit(c) == \E i \in 1..10 : Digits[i] = c
DigitVal(c) == (CHOOSE i \in 1..10 : Digits[i] = c) - 1

\* usize::MAX as a numeral: 2^32 - 1 and 2^64 - 1
UsizeMax(bits) ==
    IF bits = 32
    THEN <<"4","2","9","4","9","6","7","2","9","5">>
    ELSE <<"1","8","4","4","6","7","4","4","0","7",
           "3","7","0","9","5","5","1","6","1","5">>

RECURSIVE StripZeros(_)
StripZeros(s) ==
    IF Len(s) > 1 /\ s[1] = "0" THEN StripZeros(Tail(s)) ELSE s

\* a < b for two canonical numerals
RECURSIVE LexLess(_, _)
LexLess(a, b) ==
    IF a = <<>> THEN FALSE
    ELSE IF a[1] # b[1] THEN DigitVal(a[1]) < DigitVal(b[1])
    ELSE LexLess(Tail(a), Tail(b))

NumLess(a, b) == Len(a) < Len(b) \/ (Len(a) = Len(b) /\ LexLess(a, b))

\* usize::from_str: empty text, a lone sign, any non-digit (a leading "-"
\* included) and a value above usize::MAX are errors; one leading "+" is
\* accepted; nothing is trimmed.
ParseUsize(s, bits) ==
    LET body == IF s # <<>> /\ s[1] = "+" THEN Tail(s) ELSE s
    IN  IF body = <<>> THEN Err("Empty")
        ELSE IF \E i \in 1..Len(body) : ~IsDigit(body[i]) THEN Err("InvalidDigit")
        ELSE IF NumLess(UsizeMax(bits), StripZeros(body)) THEN Err("PosOverflow")
        ELSE Ok(StripZeros(body))

----------------------------------------------------------------------------
(* Html: what the three selectors of lib.rs see of a page.
   tables: the elements matching table#gsc_rsb_st, each a sequence of rows,
           a row the sequence of its child cells [tag, children];
   names:  the children of the elements matching div#gsc_prf_in;
   hists:  the elements matching div.gsc_md_hist_w > div.gsc_md_hist_b, each
           with the children of its span.gsc_g_t descendants (years) and of
           its a.gsc_g_a > span.gsc_g_al descendants (citations).
   The children of an element are a sequence of nodes: a character of text,
   [kind |-> "text", char], or an element, [kind |-> "element", tag,
   children]. *)

Text(chars) == [i \in 1..Len(chars) |-> [kind |-> "text", char |-> chars[i]]]
Element(tag, children) == [kind |-> "element", tag |-> tag, children |-> children]

\* the serializer writes the markup characters of a text as entities
Escape(c) ==
    CASE c = "&" -> <<"&", "a", "m", "p", ";">>
      [] c = "<" -> <<"&", "l", "t", ";">>
      [] c = ">" -> <<"&", "g", "t", ";">>
      [] OTHER -> <<c>>

\* ElementRef::inner_html(): the children of the element serialized as
\* markup, child elements with their tags
RECURSIVE inner_html(_)
inner_html(children) ==
    IF children = <<>> THEN <<>>
    ELSE LET node == Head(children)
         IN  (IF node.kind = "text" THEN Escape(node.char)
              ELSE <<"<">> \o node.tag \o <<">">> \o inner_html(node.children)
                   \o <<"<", "/">> \o node.tag \o <<">">>)
             \o inner_html(Tail(children))

\* tr > td:nth-child(2) within a table, in document order
RECURSIVE ValueCells(_)
ValueCells(rows) ==
    IF rows = <<>> THEN <<>>
    ELSE LET row == Head(rows)
         IN  (IF Len(row) >= 2 /\ row[2].tag = "td" THEN <<row[2].children>> ELSE <<>>)
             \o ValueCells(Tail(rows))

----------------------------------------------------------------------------
(* extract_author_info, lib.rs:77-110 *)

\* document.select(&table_selector).next().ok_or(TableNotFound)
FindTable(doc) ==
    IF doc.tables = <<>> THEN Err(TableNotFound) ELSE Ok(Head(doc.tables))

\* a collect() that leaves the unparsable cells out
CollectValuesSkipping(cells, bits) ==
    LET parsed == SelectSeq([i \in 1..Len(cells) |-> ParseUsize(inner_html(cells[i]), bits)],
                            LAMBDA r : r.ok)
    IN  Ok([i \in 1..Len(parsed) |-> parsed[i].val])

\* the map(parse).collect::<Result<Vec<usize>, _>>() over the value cells:
\* the first cell that does not parse ends it with ParseError(its inner html)
CollectValues(cells, bits) ==
    LET parsed == [i \in 1..Len(cells) |-> ParseUsize(inner_html(cells[i]), bits)]
        failed == {i \in 1..Len(cells) : ~parsed[i].ok}
    IN  IF failed # {} THEN Err(ParseError(inner_html(cells[Least(failed)])))
        ELSE Ok([i \in 1..Len(cells) |-> parsed[i].val])

\* an error that reports the expected count where the found one belongs
CountErrorExpected(values) == InsufficientData(3)

\* ScraperError::InsufficientData(values.len())
CountError(values) == InsufficientData(Len(values))

\* a missing name element read as an empty name
FindNameOrEmpty(doc) ==
    IF doc.names = <<>> THEN Ok(<<>>) ELSE Ok(inner_html(Head(doc.names)))

\* document.select(&name_selector).next().ok_or(NameNotFound)?.inner_html()
FindName(doc) ==
    IF doc.names = <<>> THEN Err(NameNotFound) ELSE Ok(inner_html(Head(doc.names)))

\* a tuple with the two indices exchanged
AuthorTupleSwapped(name, values) ==
    [name |-> name, total |-> values[1], h_index |-> values[3],
     i10_index |-> values[2]]

\* (name, values[0], values[1], values[2])
AuthorTuple(name, values) ==
    [name |-> name, total |-> values[1], h_index |-> values[2],
     i10_index |-> values[3]]

extract_author_info(doc, bits) ==
    LET table == FindTable(doc)
    IN  IF ~table.ok THEN table
        ELSE
          LET cells == ValueCells(table.val)
              values == CollectValues(cells, bits)
          IN  IF ~values.ok THEN values
              ELSE IF Len(values.val) < 3 THEN Err(CountError(values.val))
              ELSE LET name == FindName(doc)
                   IN  IF ~name.ok THEN name
                       ELSE Ok(AuthorTuple(name.val, values.val))

----------------------------------------------------------------------------
(* extract_citations, lib.rs:121-148 *)

\* document.select(&div_selector).next().ok_or(TableNotFound)
FindHistogram(doc) ==
    IF doc.hists = <<>> THEN Err(TableNotFound) ELSE Ok(Head(doc.hists))

\* a zip that stops one pair early
ZipDroppingLast(years, citations) ==
    [i \in 1..(Min(Len(years), Len(citations)) - 1) |-> <<years[i], citations[i]>>]

\* years.zip(citations): as many pairs as the shorter of the two has elements
Zip(years, citations) ==
    [i \in 1..Min(Len(years), Len(citations)) |-> <<years[i], citations[i]>>]

\* the closure with the count parsed before the year
ParsePairCitationFirst(y, c, bits) ==
    LET year == ParseUsize(inner_html(y), bits)
        citations == ParseUsize(inner_html(c), bits)
    IN  IF ~citations.ok THEN Err(CitationParseError(inner_html(c)))
        ELSE IF ~year.ok THEN Err(YearParseError(inner_html(y)))
        ELSE Ok(<<year.val, citations.val>>)

\* the closure of map: the year is parsed first, then the count
ParsePair(y, c, bits) ==
    LET year == ParseUsize(inner_html(y), bits)
        citations == ParseUsize(inner_html(c), bits)
    IN  IF ~year.ok THEN Err(YearParseError(inner_html(y)))
        ELSE IF ~citations.ok THEN Err(CitationParseError(inner_html(c)))
        ELSE Ok(<<year.val, citations.val>>)

\* FromIterator for BTreeMap<usize, usize>: one entry per distinct key; of
\* the pairs with equal keys the last one collected stays.
BTreeMapOf(pairs) ==
    LET keys == {pairs[i][1] : i \in 1..Len(pairs)}
        last(k) == CHOOSE i \in 1..Len(pairs) :
                      /\ pairs[i][1] = k
                      /\ \A j \in 1..Len(pairs) : pairs[j][1] = k => j <= i
    IN  [k \in keys |-> pairs[last(k)][2]]

extract_citations(doc, bits) ==
    LET div == FindHistogram(doc)
    IN  IF ~div.ok THEN div
        ELSE
          LET pairs == Zip(div.val.years, div.val.citations)
              parsed == [i \in 1..Len(pairs) |-> ParsePair(pairs[i][1], pairs[i][2], bits)]
              failed == {i \in 1..Len(pairs) : ~parsed[i].ok}
              values == [i \in 1..Len(pairs) |-> parsed[i].val]
          IN  \* collect::<Result<BTreeMap, _>>() ends at the first Err
              IF failed # {} THEN parsed[Least(failed)]
              ELSE Ok(BTreeMapOf(values))

----------------------------------------------------------------------------
(* Pages *)

SeqsUpTo(S, n) == UNION {[1..k -> S] : k \in 0..n}

Td(children) == [tag |-> "td", children |-> children]
Th(children) == [tag |-> "th", children |-> children]

\* the rows a summary table is built from: the header row (two th cells, so
\* no td is a second child) and the rows with a label, a value and a "since"
\* cell
HeaderRow == <<Th(<<>>), Th(Text(<<"A">>))>>
ValueRow(value) == <<Td(Text(<<"h">>)), Td(value), Td(Text(<<"3">>))>>

\* the value cells: 120, +7, a&b, 2^32 and 2^64
SummaryCells ==
    { Text(<<"1","2","0">>), Text(<<"+","7">>), Text(<<"a","&","b">>),
      Text(<<"4","2","9","4","9","6","7","2","9","6">>),
      Text(<<"1","8","4","4","6","7","4","4","0","7",
             "3","7","0","9","5","5","1","6","1","6">>) }

\* the name elements: Jane Doe and J&<i>D</i>
NameElements ==
    { Text(<<"J","a","n","e"," ","D","o","e">>),
      Text(<<"J","&">>) \o <<Element(<<"i">>, Text(<<"D">>))>> }

YearLabels ==
    { Text(<<"2","0","2","0">>), Text(<<"2","0","2","1">>),
      Text(<<"+","2","0","2","0">>), Text(<<"2","0","x","1">>) }

CitationLabels ==
    { Text(<<"3","0">>), <<>>, Text(<<"4","2","9","4","9","6","7","2","9","6">>) }

SummaryRows == {HeaderRow} \cup {ValueRow(c) : c \in SummaryCells}

EmptyPage == [tables |-> <<>>, names |-> <<>>, hists |-> <<>>]

DefaultAuthorId == "H7sOPf8AAAAJ"              \* main.rs:10

----------------------------------------------------------------------------
(* extract_author_info applied to every page with at most one summary
   table of at most MaxRows rows and at most MaxNames name elements *)

InitSummary ==
    /\ usize_bits \in {32, 64}
    /\ \E tables \in {<<>>} \cup {<<rows>> : rows \in SeqsUpTo(SummaryRows, MaxRows)},
          names \in SeqsUpTo(NameElements, MaxNames) :
          document = [tables |-> tables, names |-> names, hists |-> <<>>]
    /\ step = "input"
    /\ info_result = None
    /\ citations_result = None
    /\ author_id = DefaultAuthorId
    /\ tasks = <<>>
    /\ network = <<>>

ExtractAuthorInfo ==
    /\ step = "input"
    /\ info_result' = Some(extract_author_info(document, usize_bits))
    /\ step' = "done"
    /\ UNCHANGED <<usize_bits, document, citations_result, author_id, tasks, network>>

NextSummary == ExtractAuthorInfo

SpecSummary == InitSummary /\ [][NextSummary]_vars

----------------------------------------------------------------------------
(* extract_citations applied to every page with at most one histogram
   container of at most MaxYears year labels and MaxCitations counts *)

Histograms ==
    {[years |-> ys, citations |-> cs] :
        ys \in SeqsUpTo(YearLabels, MaxYears), cs \in SeqsUpTo(CitationLabels, MaxCitations)}

InitCitations ==
    /\ usize_bits \in {32, 64}
    /\ \E hists \in {<<>>} \cup {<<h>> : h \in Histograms} :
          document = [tables |-> <<>>, names |-> <<>>, hists |-> hists]
    /\ step = "input"
    /\ info_result = None
    /\ citations_result = None
    /\ author_id = DefaultAuthorId
    /\ tasks = <<>>
    /\ network = <<>>

ExtractCitations ==
    /\ step = "input"
    /\ citations_result' = Some(extract_citations(document, usize_bits))
    /\ step' = "done"
    /\ UNCHANGED <<usize_bits, document, info_result, author_id, tasks, network>>

NextCitations == ExtractCitations

SpecCitations == InitCitations /\ [][NextCitations]_vars

----------------------------------------------------------------------------
(* AuthorInfo and its serialization, lib.rs:9-22 and 160-169 *)

AuthorInfo(info, yearly_citations) ==
    [name |-> info.name, total |-> info.total, h_index |-> info.h_index,
     i10_index |-> info.i10_index, yearly_citations |-> yearly_citations]

\* the keys of a BTreeMap in iteration order: ascending
RECURSIVE SortedKeys(_)
SortedKeys(keys) ==
    IF keys = {} THEN <<>>
    ELSE LET least == CHOOSE k \in keys : \A other \in keys \ {k} : NumLess(k, other)
         IN  <<least>> \o SortedKeys(keys \ {least})

RECURSIVE YamlEntries(_, _)
YamlEntries(map, keys) ==
    IF keys = <<>> THEN <<>>
    ELSE <<"  ">> \o Head(keys) \o <<": ">> \o map[Head(keys)] \o <<"\n">>
         \o YamlEntries(map, Tail(keys))

\* serde_yaml::to_string(&author_info): the fields in declaration order,
\* yearly_citations under its serde name "years" (scalar quoting is not
\* modelled)
ToYaml(a) ==
    <<"name: ">> \o a.name \o <<"\n", "total: ">> \o a.total
    \o <<"\n", "h_index: ">> \o a.h_index \o <<"\n", "i10_index: ">> \o a.i10_index
    \o (IF DOMAIN a.yearly_citations = {} THEN <<"\n", "years: {}", "\n">>
        ELSE <<"\n", "years:", "\n">>
             \o YamlEntries(a.yearly_citations, SortedKeys(DOMAIN a.yearly_citations)))

\* errors that are not ScraperError: reqwest::Error and serde_yaml::Error
TransportError == [kind |-> "reqwest::Error"]
YamlError == [kind |-> "serde_yaml::Error"]

\* Display of the errors, lib.rs:27-40
to_string(e) ==
    CASE e.kind = "InvalidId" -> <<"Website not found. Check the ID.">>
      [] e.kind = "TableNotFound" -> <<"Failed to find the citation table on the website">>
      [] e.kind = "NameNotFound" -> <<"Failed to find the name on the website">>
      [] e.kind = "ParseError" -> <<"Failed to parse value: ">> \o e.text
      [] e.kind = "InsufficientData" ->
            <<"Insufficient data: expected 3 values, found ", ToString(e.count)>>
      [] e.kind = "YearParseError" -> <<"Failed to parse year: ">> \o e.text
      [] e.kind = "CitationParseError" -> <<"Failed to parse citation count: ">> \o e.text
      [] e.kind = "reqwest::Error" -> <<"reqwest::Error">>
      [] e.kind = "serde_yaml::Error" -> <<"serde_yaml::Error">>

----------------------------------------------------------------------------
(* fetch_page, lib.rs:52-66, and fetch_info, lib.rs:154-170 *)

Url(authorid) == <<"https://scholar.google.com/citations?user=", authorid>>

\* a status check that lets every 2xx status through
StatusIsSuccess(status) == status >= 200 /\ status < 300

\* match response.status() { StatusCode::OK => ..., _ => Err(InvalidId) }
StatusIsOk(status) == status = 200

\* a record built although extract_citations failed, with an empty mapping
FetchInfoTailPartial(page, bits, yaml_ok) ==
    LET info == extract_author_info(page, bits)
        cites == extract_citations(page, bits)
    IN  IF ~info.ok
        THEN [info |-> Some(info), citations |-> None, record |-> None, ret |-> info]
        ELSE LET a == AuthorInfo(info.val, IF cites.ok THEN cites.val ELSE <<>>)
             IN  [info |-> Some(info), citations |-> Some(cites), record |-> Some(a),
                  ret |-> IF yaml_ok THEN Ok(ToYaml(a)) ELSE Err(YamlError)]

\* fetch_info after fetch_page returned the document (lib.rs:157-169):
\* extract_author_info, then extract_citations, then the record and its
\* serialization; each ? returns the error at once.  info, citations and
\* record tell what was computed on the way.
FetchInfoTail(page, bits, yaml_ok) ==
    LET info == extract_author_info(page, bits)
    IN  IF ~info.ok
        THEN [info |-> Some(info), citations |-> None, record |-> None, ret |-> info]
        ELSE
          LET cites == extract_citations(page, bits)
          IN  IF ~cites.ok
              THEN [info |-> Some(info), citations |-> Some(cites), record |-> None,
                    ret |-> cites]
              ELSE
                LET a == AuthorInfo(info.val, cites.val)
                IN  [info |-> Some(info), citations |-> Some(cites), record |-> Some(a),
                     ret |-> IF yaml_ok THEN Ok(ToYaml(a)) ELSE Err(YamlError)]

----------------------------------------------------------------------------
(* Render, main.rs:9-42 *)

\* an unwrap() where the error belongs in the text: it panics on Err
Unwrap(result) == IF result.ok THEN Some(result.val) ELSE None

\* .unwrap_or_else(|e| e.to_string()), main.rs:16
UnwrapOrElseToString(result) ==
    IF result.ok THEN Some(result.val) ELSE Some(to_string(result.err))

\* a document kept across invocations: every task reads the document of
\* the first task that has one
DocumentOfFirst(ts, i) ==
    ts[Least({j \in 1..Len(ts) : ts[j].document.some})].document.val

\* the document a task's extraction reads: the one its own fetch_page
\* returned (let document = fetch_page(&author_id).await?)
DocumentOf(ts, i) == ts[i].document.val

\* a fetch_info future as create_resource starts it
NewTask(id) ==
    [author_id |-> id, pc |-> "start", status |-> None, document |-> None,
     info |-> None, citations |-> None, record |-> None,
     ret |-> None, text |-> None]

\* the future completes: fetch_info returned result, the closure of
\* create_resource turns it into text
Finish(task, result) ==
    LET text == UnwrapOrElseToString(result)
    IN  [task EXCEPT !.pc = IF text.some THEN "done" ELSE "panicked",
                     !.ret = Some(result),
                     !.text = text]

AuthorIds == {DefaultAuthorId, "not-an-id"}
Statuses == {200, 204, 404}

Rows3(a, b, c) == <<HeaderRow, ValueRow(Text(a)), ValueRow(Text(b)), ValueRow(Text(c))>>
Hist(year1, year2, count1, count2) ==
    [years |-> <<Text(year1), Text(year2)>>, citations |-> <<Text(count1), Text(count2)>>]
GoodHist == Hist(<<"2","0","2","0">>, <<"2","0","2","1">>, <<"3","0">>, <<"4","0">>)
BadHist == Hist(<<"2","0","2","0">>, <<"2","0","2","1">>, <<"3","0">>, <<"n","/","a">>)
BadYearHist == Hist(<<"2","0","2","0">>, <<"2","0","x","1">>, <<"3","0">>, <<"n","/","a">>)
JaneDoe == Text(<<"J","a","n","e"," ","D","o","e">>)

\* the pages the network serves: the profile of the end-to-end example, the
\* same with "abc" for "120", and pages that miss a region, have too few
\* values or have a malformed histogram
GoodPage ==
    [tables |-> <<Rows3(<<"1","2","0">>, <<"8">>, <<"5">>)>>, names |-> <<JaneDoe>>,
     hists |-> <<GoodHist>>]
Pages ==
    { GoodPage,
      [GoodPage EXCEPT !.tables = <<Rows3(<<"a","b","c">>, <<"8">>, <<"5">>)>>],
      EmptyPage,
      [GoodPage EXCEPT !.hists = <<>>],
      [GoodPage EXCEPT !.hists = <<BadHist>>],
      [GoodPage EXCEPT !.hists = <<BadYearHist>>],
      [GoodPage EXCEPT !.tables =
          <<<<HeaderRow, ValueRow(Text(<<"8">>)), ValueRow(Text(<<"5">>))>>>>],
      [GoodPage EXCEPT !.names = <<>>, !.hists = <<BadHist>>] }

Init ==
    /\ usize_bits \in {32, 64}
    /\ document = EmptyPage
    /\ step = "pipeline"
    /\ info_result = None
    /\ citations_result = None
    /\ author_id = DefaultAuthorId
    /\ tasks = <<NewTask(DefaultAuthorId)>>
    /\ network = <<>>

Others == <<usize_bits, document, step, info_result, citations_result>>

\* on:input sets the signal; the resource starts fetch_info for the new id
SetAuthorId(id) ==
    /\ Len(tasks) < MaxTasks
    /\ id # author_id
    /\ author_id' = id
    /\ tasks' = Append(tasks, NewTask(id))
    /\ UNCHANGED <<network, Others>>

\* reqwest::get(url) is issued; the future waits for the response
SendRequest(i) ==
    /\ tasks[i].pc = "start"
    /\ network' = Append(network, [task |-> i, url |-> Url(tasks[i].author_id)])
    /\ tasks' = [tasks EXCEPT ![i].pc = "awaiting response"]
    /\ UNCHANGED <<author_id, Others>>

\* the request fails: .await? returns the reqwest error
RequestFails(i) ==
    /\ tasks[i].pc = "awaiting response"
    /\ tasks' = [tasks EXCEPT ![i] = Finish(@, Err(TransportError))]
    /\ UNCHANGED <<author_id, network, Others>>

\* a response arrives: on 200 the body is awaited, else InvalidId
ReceiveResponse(i, status) ==
    /\ tasks[i].pc = "awaiting response"
    /\ tasks' = [tasks EXCEPT ![i] =
          IF StatusIsOk(status)
          THEN [@ EXCEPT !.pc = "awaiting body", !.status = Some(status)]
          ELSE Finish([@ EXCEPT !.status = Some(status)], Err(InvalidId))]
    /\ UNCHANGED <<author_id, network, Others>>

\* reading the body fails: response.text().await? returns the reqwest error
BodyFails(i) ==
    /\ tasks[i].pc = "awaiting body"
    /\ tasks' = [tasks EXCEPT ![i] = Finish(@, Err(TransportError))]
    /\ UNCHANGED <<author_id, network, Others>>

\* the body arrives and is parsed; the rest of fetch_info runs without
\* another await
ReceiveBody(i, page, yaml_ok) ==
    /\ tasks[i].pc = "awaiting body"
    /\ LET got == [tasks EXCEPT ![i].document = Some(page)]
           doc == DocumentOf(got, i)
           tail == FetchInfoTail(doc, usize_bits, yaml_ok)
       IN  tasks' = [got EXCEPT ![i] =
              Finish([@ EXCEPT !.info = tail.info, !.citations = tail.citations,
                               !.record = tail.record], tail.ret)]
    /\ UNCHANGED <<author_id, network, Others>>

Next ==
    \/ \E id \in AuthorIds : SetAuthorId(id)
    \/ \E i \in 1..Len(tasks) : SendRequest(i)
    \/ \E i \in 1..Len(tasks) : RequestFails(i)
    \/ \E i \in 1..Len(tasks), status \in Statuses : ReceiveResponse(i, status)
    \/ \E i \in 1..Len(tasks) : BodyFails(i)
    \/ \E i \in 1..Len(tasks), page \in Pages, yaml_ok \in BOOLEAN :
          ReceiveBody(i, page, yaml_ok)

Spec == Init /\ [][Next]_vars

----------------------------------------------------------------------------
(* Vocabulary of the claims about extract_author_info *)

\* the inner text of an element: the characters of its text, in order
RECURSIVE TextOf(_)
TextOf(children) ==
    IF children = <<>> THEN <<>>
    ELSE (IF Head(children).kind = "text" THEN <<Head(children).char>>
          ELSE TextOf(Head(children).children))
         \o TextOf(Tail(children))

\* the text with one leading "+" removed
Unsigned(s) == IF s # <<>> /\ s[1] = "+" THEN Tail(s) ELSE s

\* the text denotes a non-negative integer in base 10
IsDecimalNat(s) ==
    /\ Unsigned(s) # <<>>
    /\ \A i \in 1..Len(Unsigned(s)) : IsDigit(Unsigned(s)[i])

\* the integer a text denotes
NumeralOf(s) == StripZeros(Unsigned(s))

\* the text denotes an integer of at most usize::MAX
FitsUsize(s) == IsDecimalNat(s) /\ ~NumLess(UsizeMax(usize_bits), NumeralOf(s))

TablePresent == document.tables # <<>>
NamePresent == document.names # <<>>
InfoDone == step = "done" /\ info_result.some

\* the inner html of the value cells of the table
CellHtml ==
    IF TablePresent
    THEN LET cells == ValueCells(Head(document.tables))
         IN  [i \in 1..Len(cells) |-> inner_html(cells[i])]
    ELSE <<>>

FirstThree(name, cells) ==
    [name |-> name, total |-> NumeralOf(cells[1]),
     h_index |-> NumeralOf(cells[2]), i10_index |-> NumeralOf(cells[3])]

\* C1 as stated: with the table present, at least 3 value cells that denote
\* a non-negative integer each, and a name element, extract_author_info
\* returns the content of the first name element and the first three values
\* in order.  (Content is read as the inner html, in favour of the claim.)
C1_AsStated ==
    InfoDone =>
       LET cells == CellHtml
       IN  (/\ TablePresent /\ NamePresent
            /\ Len(cells) >= 3
            /\ \A i \in 1..Len(cells) : IsDecimalNat(cells[i]))
           => info_result.val = Ok(FirstThree(inner_html(Head(document.names)), cells))

\* C1 amended: with the table present, at least 3 value cells whose inner
\* html denotes an integer of at most usize::MAX each, and a name element,
\* extract_author_info returns the inner html of the first name element and
\* the first three values in order; cells after the third do not change the
\* result.
C1_FirstThreeValues ==
    InfoDone =>
       LET cells == CellHtml
       IN  (/\ TablePresent /\ NamePresent
            /\ Len(cells) >= 3
            /\ \A i \in 1..Len(cells) : FitsUsize(cells[i]))
           => info_result.val = Ok(FirstThree(inner_html(Head(document.names)), cells))

C1_Witness ==
    /\ InfoDone /\ TablePresent
    /\ Len(document.names) = 2 /\ document.names[1] # document.names[2]
    /\ TextOf(document.names[1]) # inner_html(document.names[1])
    /\ Len(CellHtml) >= 4
    /\ \A i \in 1..Len(CellHtml) : FitsUsize(CellHtml[i])
    /\ CellHtml[1] # CellHtml[2] /\ CellHtml[2] # CellHtml[3] /\ CellHtml[1] # CellHtml[3]
    /\ CellHtml[4] # CellHtml[3]
    /\ info_result.val.ok
    /\ info_result.val.val.name = inner_html(document.names[1])

\* C2 as stated: with the table present and fewer than 3 value cells that
\* parse, the result is InsufficientData(number of cells that parsed).
C2_AsStated ==
    InfoDone =>
       LET cells == CellHtml
           parsed == {i \in 1..Len(cells) : FitsUsize(cells[i])}
       IN  (TablePresent /\ Cardinality(parsed) < 3)
           => info_result.val = Err(InsufficientData(Cardinality(parsed)))

\* C2 amended: with the table present, every value cell parsing, and fewer
\* than 3 value cells, the result is InsufficientData(number of value cells).
C2_InsufficientData ==
    InfoDone =>
       LET cells == CellHtml
       IN  (/\ TablePresent
            /\ \A i \in 1..Len(cells) : FitsUsize(cells[i])
            /\ Len(cells) < 3)
           => info_result.val = Err(InsufficientData(Len(cells)))

C2_Witness ==
    /\ InfoDone /\ TablePresent /\ NamePresent
    /\ Len(Head(document.tables)) = 3
    /\ Head(document.tables)[1] = HeaderRow
    /\ Len(CellHtml) = 2
    /\ info_result.val = Err(InsufficientData(2))

\* C3 as stated: without the table the result is TableNotFound; with the
\* table and without the name element it is NameNotFound.
C3_AsStated ==
    /\ (InfoDone /\ ~TablePresent) => info_result.val = Err(TableNotFound)
    /\ (InfoDone /\ TablePresent /\ ~NamePresent)
          => info_result.val = Err(NameNotFound)

\* C3 amended: without the table the result is TableNotFound; with the
\* table, at least 3 value cells that all parse, and no name element, it is
\* NameNotFound.
C3_NotFound ==
    InfoDone =>
       LET cells == CellHtml
       IN  /\ ~TablePresent => info_result.val = Err(TableNotFound)
           /\ (/\ TablePresent /\ ~NamePresent
               /\ Len(cells) >= 3
               /\ \A i \in 1..Len(cells) : FitsUsize(cells[i]))
                 => info_result.val = Err(NameNotFound)

C3_Witness ==
    /\ InfoDone /\ TablePresent /\ ~NamePresent
    /\ Len(CellHtml) >= 3
    /\ info_result.val = Err(NameNotFound)

\* C4 as stated: with the table present and a value cell that does not
\* denote a non-negative integer, the result is ParseError(content of the
\* first such cell).
C4_AsStated ==
    InfoDone =>
       LET cells == CellHtml
           bad == {i \in 1..Len(cells) : ~IsDecimalNat(cells[i])}
       IN  (TablePresent /\ bad # {})
           => info_result.val = Err(ParseError(cells[Least(bad)]))

\* C4 amended: with the table present and a value cell whose inner html does
\* not denote an integer of at most usize::MAX, the result is
\* ParseError(inner html of the first such cell).
C4_ParseError ==
    InfoDone =>
       LET cells == CellHtml
           bad == {i \in 1..Len(cells) : ~FitsUsize(cells[i])}
       IN  (TablePresent /\ bad # {})
           => info_result.val = Err(ParseError(cells[Least(bad)]))

C4_Witness ==
    /\ InfoDone /\ TablePresent /\ NamePresent
    /\ Len(CellHtml) >= 3
    /\ FitsUsize(CellHtml[1])
    /\ ~IsDecimalNat(CellHtml[2])
    /\ CellHtml[2] = <<"a", "&", "a", "m", "p", ";", "b">>
    /\ ~FitsUsize(CellHtml[3]) /\ CellHtml[3] # CellHtml[2]
    /\ info_result.val = Err(ParseError(CellHtml[2]))

----------------------------------------------------------------------------
(* Vocabulary of the claims about extract_citations *)

HistPresent == document.hists # <<>>
CitationsDone == step = "done" /\ citations_result.some

\* the inner html of the year labels and of the counts
Years ==
    IF HistPresent
    THEN [i \in 1..Len(Head(document.hists).years) |->
             inner_html(Head(document.hists).years[i])]
    ELSE <<>>
Counts ==
    IF HistPresent
    THEN [i \in 1..Len(Head(document.hists).citations) |->
             inner_html(Head(document.hists).citations[i])]
    ELSE <<>>

AllParse(years, counts) ==
    /\ \A i \in 1..Len(years) : FitsUsize(years[i])
    /\ \A i \in 1..Len(counts) : FitsUsize(counts[i])
DistinctYears(years, n) ==
    \A i, j \in 1..n : NumeralOf(years[i]) = NumeralOf(years[j]) => i = j

\* C5 as stated: when every year label and every count parses, the result
\* is a mapping of exactly min(len(years), len(counts)) entries, the i-th
\* year mapped to the i-th count.
C5_AsStated ==
    CitationsDone =>
       LET years == Years
           counts == Counts
           n == Min(Len(years), Len(counts))
           map == citations_result.val.val
       IN  (HistPresent /\ AllParse(years, counts))
           => /\ citations_result.val.ok
              /\ Cardinality(DOMAIN map) = n
              /\ \A i \in 1..n : map[NumeralOf(years[i])] = NumeralOf(counts[i])

\* C5 amended: when every year label and every count parses, the result is
\* a mapping whose keys are the years of the first min(len(years),
\* len(counts)) labels, each mapped to the count paired with one of its
\* labels; when those years are pairwise different it has exactly
\* min(len(years), len(counts)) entries, the i-th year mapped to the i-th
\* count.
C5_Mapping ==
    CitationsDone =>
       LET years == Years
           counts == Counts
           n == Min(Len(years), Len(counts))
           map == citations_result.val.val
       IN  (HistPresent /\ AllParse(years, counts))
           => /\ citations_result.val.ok
              /\ DOMAIN map = {NumeralOf(years[i]) : i \in 1..n}
              /\ \A k \in DOMAIN map :
                    \E i \in 1..n : NumeralOf(years[i]) = k /\ map[k] = NumeralOf(counts[i])
              /\ DistinctYears(years, n) =>
                    /\ Cardinality(DOMAIN map) = n
                    /\ \A i \in 1..n : map[NumeralOf(years[i])] = NumeralOf(counts[i])

C5_Witness ==
    /\ CitationsDone /\ HistPresent /\ AllParse(Years, Counts)
    /\ Len(Years) = 3 /\ Len(Counts) = 2
    /\ DistinctYears(Years, 2)
    /\ Counts[1] # Counts[2]
    /\ citations_result.val.ok
    /\ Cardinality(DOMAIN citations_result.val.val) = 2

\* C7: when a year label or a count among the paired elements does not
\* parse, the result is the error of the first such pair: YearParseError(year
\* label) when its year does not parse, else CitationParseError(count); no
\* mapping is returned.
C7_FirstPairError ==
    CitationsDone =>
       LET years == Years
           counts == Counts
           n == Min(Len(years), Len(counts))
           bad == {i \in 1..n : ~FitsUsize(years[i]) \/ ~FitsUsize(counts[i])}
       IN  (HistPresent /\ bad # {})
           => citations_result.val =
                 IF ~FitsUsize(years[Least(bad)])
                 THEN Err(YearParseError(years[Least(bad)]))
                 ELSE Err(CitationParseError(counts[Least(bad)]))

C7_Witness ==
    /\ CitationsDone /\ HistPresent
    /\ Len(Years) = 3 /\ Len(Counts) = 3
    /\ FitsUsize(Years[1]) /\ FitsUsize(Counts[1])
    /\ ~FitsUsize(Years[2]) /\ ~FitsUsize(Counts[2])
    /\ FitsUsize(Years[3]) /\ ~FitsUsize(Counts[3])
    /\ citations_result.val = Err(YearParseError(Years[2]))

----------------------------------------------------------------------------
(* The claims about fetch_page, fetch_info and Render *)

TaskIds == 1..Len(tasks)
Requests(i) == {k \in 1..Len(network) : network[k].task = i}

\* C6: in every invocation extract_citations is evaluated only after
\* extract_author_info succeeded; the error of extract_author_info, and else
\* the error of extract_citations, is what fetch_info returns; the record is
\* built only from two successes and holds their values; a serialized record
\* is returned only for a record so built.
C6_ShortCircuit ==
    \A i \in TaskIds :
       LET t == tasks[i]
       IN  /\ t.citations.some => (t.info.some /\ t.info.val.ok)
           /\ (t.info.some /\ ~t.info.val.ok)
                 => (~t.citations.some /\ ~t.record.some /\ t.ret = Some(t.info.val))
           /\ (t.citations.some /\ ~t.citations.val.ok)
                 => (~t.record.some /\ t.ret = Some(t.citations.val))
           /\ t.record.some
                 => /\ t.info.some /\ t.info.val.ok
                    /\ t.citations.some /\ t.citations.val.ok
                    /\ t.record.val.name = t.info.val.val.name
                    /\ t.record.val.total = t.info.val.val.total
                    /\ t.record.val.h_index = t.info.val.val.h_index
                    /\ t.record.val.i10_index = t.info.val.val.i10_index
                    /\ t.record.val.yearly_citations = t.citations.val.val
           /\ (t.ret.some /\ t.ret.val.ok)
                 => (t.record.some /\ t.ret.val.val = ToYaml(t.record.val))

\* one invocation stopped at the error of extract_author_info on a page
\* whose histogram would fail too, another returned the record of the
\* end-to-end example
C6_Witness ==
    \E i, j \in TaskIds :
       /\ tasks[i].pc = "done" /\ tasks[i].document.some
       /\ ~extract_citations(tasks[i].document.val, usize_bits).ok
       /\ tasks[i].ret = Some(Err(NameNotFound))
       /\ ~tasks[i].citations.some
       /\ tasks[j].pc = "done" /\ tasks[j].document = Some(GoodPage)
       /\ tasks[j].ret.val.ok
       /\ tasks[j].record.val.yearly_citations =
             (<<"2","0","2","0">> :> <<"3","0">>) @@ (<<"2","0","2","1">> :> <<"4","0">>)

IsSuccessStatus(status) == status >= 200 /\ status <= 299

\* C8 as stated: fetch_page fails with InvalidId exactly when the status of
\* the response is not a 2xx status, and every response with a 2xx status
\* yields the document and goes on to extraction.
C8_AsStated ==
    \A i \in TaskIds :
       LET t == tasks[i]
       IN  t.status.some =>
              /\ (t.ret = Some(Err(InvalidId))) <=> ~IsSuccessStatus(t.status.val)
              /\ (IsSuccessStatus(t.status.val) /\ t.pc = "done")
                    => (t.document.some /\ t.info.some)

\* C8 amended: fetch_page fails with InvalidId exactly when a response
\* arrived whose status is not 200; a response with status 200 whose body
\* is read without a transport error yields the document and goes on to
\* extraction.
C8_InvalidId ==
    \A i \in TaskIds :
       LET t == tasks[i]
       IN  /\ (t.ret = Some(Err(InvalidId))) <=> (t.status.some /\ t.status.val # 200)
           /\ (/\ t.status = Some(200) /\ t.pc = "done"
               /\ t.ret # Some(Err(TransportError)))
                 => (t.document.some /\ t.info.some)

C8_Witness ==
    \E i, j \in TaskIds :
       /\ tasks[i].status = Some(204) /\ tasks[i].ret = Some(Err(InvalidId))
       /\ tasks[j].status = Some(200) /\ tasks[j].pc = "done"
       /\ tasks[j].document.some /\ tasks[j].info.some

\* C9: no invocation panics, and every invocation that has returned gave
\* the caller a text: the serialized record when fetch_info returned Ok, the
\* Display text of its error otherwise.
C9_AlwaysText ==
    \A i \in TaskIds :
       LET t == tasks[i]
       IN  /\ t.pc # "panicked"
           /\ t.ret.some <=> t.pc = "done"
           /\ t.pc = "done"
                 => /\ t.text.some
                    /\ t.ret.val.ok => (t.record.some /\ t.text.val = ToYaml(t.record.val))
                    /\ ~t.ret.val.ok => t.text.val = to_string(t.ret.val.err)

C9_Witness ==
    \E i, j \in TaskIds :
       /\ tasks[i].pc = "done" /\ tasks[i].ret.val.ok
       /\ tasks[i].text = Some(ToYaml(tasks[i].record.val))
       /\ tasks[j].pc = "done"
       /\ tasks[j].text = Some(<<"Failed to parse value: ", "a", "b", "c">>)

\* what fetch_info returns for a task run alone with the same response
Alone(t) ==
    IF ~t.status.some THEN {Err(TransportError)}
    ELSE IF t.status.val # 200 THEN {Err(InvalidId)}
    ELSE IF ~t.document.some THEN {Err(TransportError)}
    ELSE {FetchInfoTail(t.document.val, usize_bits, yaml_ok).ret : yaml_ok \in BOOLEAN}

\* C10: in every interleaving each invocation has issued exactly one request
\* once started (none before), for the url of its own identifier, and what
\* it returns is what it would return alone for its own response.
C10_Independent ==
    /\ \A i \in TaskIds :
          /\ Cardinality(Requests(i)) = IF tasks[i].pc = "start" THEN 0 ELSE 1
          /\ tasks[i].pc = "done" => tasks[i].ret.val \in Alone(tasks[i])
    /\ \A k \in 1..Len(network) :
          /\ network[k].task \in TaskIds
          /\ network[k].url = Url(tasks[network[k].task].author_id)

\* two invocations with different identifiers, the later one requested
\* first, both returned, each with the result of its own page
C10_Witness ==
    /\ Len(tasks) = 2 /\ Len(network) = 2
    /\ network[1].task = 2
    /\ tasks[1].author_id # tasks[2].author_id
    /\ tasks[1].pc = "done" /\ tasks[2].pc = "done"
    /\ tasks[1].document.some /\ tasks[2].document.some
    /\ tasks[1].document # tasks[2].document
    /\ tasks[1].ret.val.ok /\ ~tasks[2].ret.val.ok

====
